---------------------------- MODULE Spec2Model ----------------------------
(***************************************************************************)
(* Model of the polynomial engine of scatmath (Polynomial<R> over the      *)
(* integer ring ZZ): src/src/polynomials/generic_polynomial.rs,            *)
(* src/src/polynomials/integer_polynomial.rs,                              *)
(* src/src/rings/integer_ring/integer_ring.rs and src/src/utils/utils.rs.  *)
(*                                                                         *)
(* A polynomial is its coefficient vector, low degree first; a TLA+        *)
(* sequence s models the Vec whose element i is s[i+1].  A ZZ value is the *)
(* arbitrary-precision integer it wraps.                                   *)
(*                                                                         *)
(* The residue rings (src/src/rings/residue_rings/residue_ring.rs and      *)
(* residue_ring_number.rs) are modelled beside it: a Zmod is its modulus,  *)
(* a ZmodNumber its integer and its optional modulus.                      *)
(***************************************************************************)
EXTENDS Integers, Sequences, FiniteSets, TLC

VARIABLES p, q, call, zm, za, zb, zcall

\* the polynomial caller's state and the residue-ring caller's state
pvars == <<p, q, call>>

zvars == <<zm, za, zb, zcall>>

vars == <<p, q, call, zm, za, zb, zcall>>

(***************************************************************************)
(* Bounds of the model.                                                    *)
(***************************************************************************)
\* longest coefficient vector the caller keeps or gives to a constructor
MaxLen == 2
\* coefficients given to constructors and kept by the caller lie in -1..MaxCoef
MaxCoef == 1
\* longest operand of the operand-sweep specification SpecOps
MaxOpLen == 3

\* width of usize on the smallest target Rust supports; degree() computes in usize
UsizeBits == 16

\* largest modulus given to Zmod::new and ZmodNumber::new
MaxMod == 3
\* largest magnitude of an integer given to the residue rings or kept by
\* their caller in a value without modulus
MaxInner == 3

\* largest x_deg given to shift_by and shifted_by
MaxShift == 1

\* -1 and 1 so that coefficients cancel, 0 so that vectors end in zeros
Coef == (0 - 1)..MaxCoef

RawSeqs(n) == UNION {[1..m -> Coef] : m \in 0..n}

InBounds(s) == Len(s) <= MaxLen /\ \A i \in 1..Len(s) : s[i] \in Coef

Max(a, b) == IF a >= b THEN a ELSE b

(***************************************************************************)
(* The integer ring ZZ (integer_ring.rs).                                  *)
(***************************************************************************)
ZZ_ZERO == 0

ZZ_add_ffn(a, b) == a + b

ZZ_sub_ffn(a, b) == a - b

ZZ_mul_ffn(a, b) == a * b

ZZ_mul_usize_ffn(a, n) == a * n

ZZ_eq_ffn(a, b) == a = b

\* impl Neg for ZZ: fn neg(self) { ZZ(self.0) } -- the wrapped integer is
\* returned as it is.
ZZ_neg(a) == a

(***************************************************************************)
(* The residue rings (residue_ring.rs, residue_ring_number.rs).            *)
(***************************************************************************)
\* Option<Rc<Integer>>
None == [some |-> FALSE, val |-> 0]

Some(m) == [some |-> TRUE, val |-> m]

\* rug's rem_euc_assign: the remainder r with 0 <= r < |d|; it panics on d = 0
rem_euc(n, d) == n % (IF d < 0 THEN 0 - d ELSE d)

\* ZmodNumber::new with a modulus of zero divides by zero
ZmodNumber_new_panics(m) == m.some /\ m.val = 0

ZmodNumber_new(n, m) ==
    [inner |-> IF m.some THEN rem_euc(n, m.val) ELSE n, modulus |-> m]

reduce_w_modulus(self) ==
    IF ~self.modulus.some THEN self
    ELSE [self EXCEPT !.inner = rem_euc(self.inner, self.modulus.val)]

\* Option::or_else
or_else(m, other) == IF m.some THEN m ELSE other

ZmodNumber_add_ffn(lhs, rhs) ==
    ZmodNumber_new(lhs.inner + rhs.inner, or_else(lhs.modulus, rhs.modulus))

ZmodNumber_add_usize_ffn(lhs, rhs) == ZmodNumber_new(lhs.inner + rhs, lhs.modulus)

ZmodNumber_add_assign_ffn(lhs, rhs) ==
    reduce_w_modulus([lhs EXCEPT !.inner = lhs.inner + rhs.inner])

ZmodNumber_add_assign_usize_ffn(lhs, rhs) ==
    reduce_w_modulus([lhs EXCEPT !.inner = lhs.inner + rhs])

ZmodNumber_sub_ffn(lhs, rhs) ==
    ZmodNumber_new(lhs.inner - rhs.inner, or_else(lhs.modulus, rhs.modulus))

ZmodNumber_sub_usize_ffn(lhs, rhs) == ZmodNumber_new(lhs.inner - rhs, lhs.modulus)

ZmodNumber_sub_assign_ffn(lhs, rhs) ==
    reduce_w_modulus([lhs EXCEPT !.inner = lhs.inner - rhs.inner])

ZmodNumber_sub_assign_usize_ffn(lhs, rhs) ==
    reduce_w_modulus([lhs EXCEPT !.inner = lhs.inner - rhs])

ZmodNumber_mul_ffn(lhs, rhs) ==
    ZmodNumber_new(lhs.inner * rhs.inner, or_else(lhs.modulus, rhs.modulus))

ZmodNumber_mul_usize_ffn(lhs, rhs) == ZmodNumber_new(lhs.inner * rhs, lhs.modulus)

ZmodNumber_mul_assign_ffn(lhs, rhs) ==
    reduce_w_modulus([lhs EXCEPT !.inner = lhs.inner * rhs.inner])

ZmodNumber_mul_assign_usize_ffn(lhs, rhs) ==
    reduce_w_modulus([lhs EXCEPT !.inner = lhs.inner * rhs])

ZmodNumber_eq_ffn(lhs, rhs) == lhs.inner = rhs.inner

\* impl Neg for ZmodNumber, &ZmodNumber and &mut ZmodNumber
ZmodNumber_neg(self) == ZmodNumber_new(0 - self.inner, self.modulus)

\* AdditiveIdentity::ZERO / zero() and MultiplicativeIdentity::one()
ZmodNumber_ZERO == [inner |-> 0, modulus |-> None]

ZmodNumber_one == [inner |-> 1, modulus |-> None]

\* Zmod::new accepting a modulus of zero
Zmod_new_negative_only(modulus) ==
    IF modulus < 0 THEN [ok |-> FALSE, modulus |-> 0]
    ELSE [ok |-> TRUE, modulus |-> modulus]

\* Zmod::new: Err("Modulus must be positive"), or Ok of the ring
Zmod_new(modulus) ==
    IF modulus <= 0 THEN [ok |-> FALSE, modulus |-> 0]
    ELSE [ok |-> TRUE, modulus |-> modulus]

Zmod_modulus(self) == self.modulus

Zmod_number(self, n) == ZmodNumber_new(n, Some(self.modulus))

Zmod_zero(self) == ZmodNumber_new(0, Some(self.modulus))

Zmod_one(self) == ZmodNumber_new(1, Some(self.modulus))

(***************************************************************************)
(* Vec helpers.                                                            *)
(***************************************************************************)
\* Vec::resize(n, z): truncate to n, or pad with z up to n
resize(c, n, z) ==
    IF n <= Len(c) THEN SubSeq(c, 1, n)
    ELSE c \o [i \in 1..(n - Len(c)) |-> z]

\* usize::next_power_of_two: the smallest power of two >= n (1 for n = 0)
RECURSIVE pow2_from(_, _)
pow2_from(c, n) == IF c >= n THEN c ELSE pow2_from(2 * c, n)

next_power_of_two(n) == pow2_from(1, n)

\* utils::shift_ring_vec: shift zeros in front of vec
shift_ring_vec(vec, shift) ==
    IF shift = 0 THEN vec
    ELSE [i \in 1..shift |-> ZZ_ZERO] \o vec

(***************************************************************************)
(* Polynomial<ZZ>: construction and accessors.                             *)
(***************************************************************************)
new == <<>>

\* from_owned_coefficients with an `if` for the `while`: one zero is popped
from_owned_coefficients_pop_once(coefficients) ==
    IF coefficients = <<>> THEN <<>>
    ELSE IF ~ZZ_eq_ffn(coefficients[Len(coefficients)], ZZ_ZERO) THEN coefficients
    ELSE SubSeq(coefficients, 1, Len(coefficients) - 1)

\* the loop `while let Some(a) = coefficients.last() { if a != &zero {break}; pop }`
RECURSIVE from_owned_coefficients(_)
from_owned_coefficients(coefficients) ==
    IF coefficients = <<>> THEN <<>>
    ELSE IF ~ZZ_eq_ffn(coefficients[Len(coefficients)], ZZ_ZERO) THEN coefficients
    ELSE from_owned_coefficients(SubSeq(coefficients, 1, Len(coefficients) - 1))

\* from_coefficients: convert each element into R (ZZ into ZZ), then the same loop
RECURSIVE strip_coeffs(_)
strip_coeffs(coeffs) ==
    IF coeffs = <<>> THEN <<>>
    ELSE IF ~ZZ_eq_ffn(coeffs[Len(coeffs)], ZZ_ZERO) THEN coeffs
    ELSE strip_coeffs(SubSeq(coeffs, 1, Len(coeffs) - 1))

from_coefficients(coefficients) ==
    strip_coeffs([i \in 1..Len(coefficients) |-> coefficients[i]])

is_zero(c) == c = <<>> \/ (Len(c) = 1 /\ ZZ_eq_ffn(c[1], ZZ_ZERO))

\* degree(): (self.coefficients.len() - 1).max(0) in usize.  With no
\* coefficient the subtraction overflows: a build with overflow checks panics,
\* a build without them wraps to usize::MAX.  The set of outcomes, each
\* [panic, val].
degree(c) ==
    IF Len(c) >= 1
    THEN {[panic |-> FALSE, val |-> Max(Len(c) - 1, 0)]}
    ELSE {[panic |-> TRUE, val |-> 0],
          [panic |-> FALSE, val |-> Max((Len(c) - 1) % (2 ^ UsizeBits), 0)]}

\* is_linear(): self.degree() == 1
is_linear(c) == {[panic |-> d.panic, flag |-> (~d.panic /\ d.val = 1)] : d \in degree(c)}

\* the coefficients of self after shift_by(x_deg)
shift_by(c, x_deg) ==
    IF x_deg = 0 \/ is_zero(c) THEN c
    ELSE [i \in 1..x_deg |-> ZZ_ZERO] \o c

\* shifted_by(x_deg): past the early return, `Vec::with_capacity` makes a
\* vector of length 0 (degree() does not overflow here, self has a
\* coefficient), and the slice `coeffs[x_deg..]` starts beyond its end: the
\* call panics in every build
shifted_by(c, x_deg) ==
    IF x_deg = 0 \/ is_zero(c) THEN [panic |-> FALSE, ret |-> c]
    ELSE [panic |-> TRUE, ret |-> <<>>]

(***************************************************************************)
(* Addition.                                                               *)
(***************************************************************************)
\* add_ffn returning the summed vector as it is
add_ffn_unstripped(lhs, rhs) ==
    IF is_zero(lhs) THEN rhs
    ELSE IF is_zero(rhs) THEN lhs
    ELSE LET short == IF Len(lhs) >= Len(rhs) THEN rhs ELSE lhs
             long == IF Len(lhs) >= Len(rhs) THEN lhs ELSE rhs
         IN  [i \in 1..Len(long) |->
                IF i <= Len(short) THEN ZZ_add_ffn(long[i], short[i])
                ELSE long[i]]

add_ffn(lhs, rhs) ==
    IF is_zero(lhs) THEN rhs
    ELSE IF is_zero(rhs) THEN lhs
    ELSE LET short == IF Len(lhs) >= Len(rhs) THEN rhs ELSE lhs
             long == IF Len(lhs) >= Len(rhs) THEN lhs ELSE rhs
             coeffs == [i \in 1..Len(long) |->
                          IF i <= Len(short) THEN ZZ_add_ffn(long[i], short[i])
                          ELSE long[i]]
         IN  from_owned_coefficients(coeffs)

\* the value of lhs after add_assign_ffn(&mut lhs, &rhs)
add_assign_ffn(lhs, rhs) ==
    LET grown == IF Len(lhs) < Len(rhs) THEN resize(lhs, Len(rhs), ZZ_ZERO) ELSE lhs
    IN  [i \in 1..Len(grown) |->
           IF i <= Len(rhs) THEN ZZ_add_ffn(grown[i], rhs[i]) ELSE grown[i]]

(***************************************************************************)
(* Negation: impl Neg for Polynomial<R> (owned) and for &Polynomial<R>.    *)
(***************************************************************************)
neg(c) == [i \in 1..Len(c) |-> ZZ_neg(c[i])]

\* out starts as from_owned_coefficients(Vec::with_capacity(len)), the empty
\* vector, and gets -coefficients[i] pushed for each i
neg_ref(c) == from_owned_coefficients(<<>>) \o [i \in 1..Len(c) |-> ZZ_neg(c[i])]

(***************************************************************************)
(* Subtraction.                                                            *)
(***************************************************************************)
sub_ffn(lhs, rhs) ==
    IF is_zero(lhs) THEN neg(rhs)
    ELSE LET out == IF Len(lhs) < Len(rhs) THEN resize(lhs, Len(rhs), ZZ_ZERO) ELSE lhs
         IN  [i \in 1..Len(out) |->
                IF i <= Len(rhs) THEN ZZ_sub_ffn(out[i], rhs[i]) ELSE out[i]]

\* the value of lhs after sub_assign_ffn(&mut lhs, &rhs)
sub_assign_ffn(lhs, rhs) ==
    LET grown == IF Len(lhs) < Len(rhs) THEN resize(lhs, Len(rhs), ZZ_ZERO) ELSE lhs
    IN  [i \in 1..Len(grown) |->
           IF i <= Len(rhs) THEN ZZ_sub_ffn(grown[i], rhs[i]) ELSE grown[i]]

(***************************************************************************)
(* Scalar multiplication.                                                  *)
(***************************************************************************)
\* scalar_mul_ffn with neither the test for a zero scalar nor the stripping
scalar_mul_ffn_unstripped(lhs, scalar) ==
    [i \in 1..Len(lhs) |-> ZZ_mul_ffn(lhs[i], scalar)]

scalar_mul_ffn(lhs, scalar) ==
    IF ZZ_eq_ffn(scalar, ZZ_ZERO) THEN new
    ELSE from_owned_coefficients([i \in 1..Len(lhs) |-> ZZ_mul_ffn(lhs[i], scalar)])

\* the value of lhs after scalar_mul_assign_ffn(&mut lhs, &scalar)
scalar_mul_assign_ffn(lhs, scalar) ==
    IF ZZ_eq_ffn(scalar, ZZ_ZERO) THEN new
    ELSE [i \in 1..Len(lhs) |-> ZZ_mul_ffn(lhs[i], scalar)]

\* Polynomial<ZZ> * usize (integer_polynomial.rs)
scalar_mul_usize_ffn(lhs, scalar) ==
    IF scalar = 0 THEN new
    ELSE from_owned_coefficients([i \in 1..Len(lhs) |-> ZZ_mul_usize_ffn(lhs[i], scalar)])

(***************************************************************************)
(* Polynomial multiplication.                                              *)
(***************************************************************************)
\* vec![ac, ad + bc, bd] of (a + bx)(c + dx)
linear_product(a, b, c, d) ==
    <<ZZ_mul_ffn(a, c), ZZ_add_ffn(ZZ_mul_ffn(a, d), ZZ_mul_ffn(b, c)), ZZ_mul_ffn(b, d)>>

\* the element-wise sum `a + b + c` of the three parts, a missing element
\* counting as zero
combine(p0q0, mid, high) ==
    LET len == Max(Max(Len(p0q0), Len(mid)), Len(high))
        at(v, i) == IF i <= Len(v) THEN v[i] ELSE ZZ_ZERO
    IN  [i \in 1..len |->
           ZZ_add_ffn(ZZ_add_ffn(at(p0q0, i), at(mid, i)), at(high, i))]

\* poly_mul_internal with the high product shifted by k, not by d
RECURSIVE poly_mul_internal_high_by_k(_, _)
poly_mul_internal_high_by_k(lhs, rhs) ==
    IF Len(lhs) = 0 THEN <<>>
    ELSE IF Len(lhs) = 1 THEN <<ZZ_mul_ffn(lhs[1], rhs[1])>>
    ELSE IF Len(lhs) = 2 THEN linear_product(lhs[1], lhs[2], rhs[1], rhs[2])
    ELSE LET d == Len(lhs)
             k == d \div 2
             p0 == SubSeq(lhs, 1, k)
             p1 == SubSeq(lhs, k + 1, Len(lhs))
             q0 == SubSeq(rhs, 1, k)
             q1 == SubSeq(rhs, k + 1, Len(rhs))
             p0q0 == poly_mul_internal_high_by_k(p0, q0)
             p1q0 == poly_mul_internal_high_by_k(p1, q0)
             p0q1 == poly_mul_internal_high_by_k(p0, q1)
             p1q1 == poly_mul_internal_high_by_k(p1, q1)
             summed == [i \in 1..Len(p1q0) |->
                          IF i <= Len(p0q1) THEN ZZ_add_ffn(p1q0[i], p0q1[i])
                          ELSE p1q0[i]]
         IN  combine(p0q0, shift_ring_vec(summed, k), shift_ring_vec(p1q1, k))

\* poly_mul_internal: both slices have the same length
RECURSIVE poly_mul_internal(_, _)
poly_mul_internal(lhs, rhs) ==
    IF Len(lhs) = 0 THEN <<>>
    ELSE IF Len(lhs) = 1 THEN <<ZZ_mul_ffn(lhs[1], rhs[1])>>
    ELSE IF Len(lhs) = 2 THEN linear_product(lhs[1], lhs[2], rhs[1], rhs[2])
    ELSE LET d == Len(lhs)
             k == d \div 2
             p0 == SubSeq(lhs, 1, k)
             p1 == SubSeq(lhs, k + 1, Len(lhs))
             q0 == SubSeq(rhs, 1, k)
             q1 == SubSeq(rhs, k + 1, Len(rhs))
             p0q0 == poly_mul_internal(p0, q0)
             p1q0 == poly_mul_internal(p1, q0)
             p0q1 == poly_mul_internal(p0, q1)
             p1q1 == poly_mul_internal(p1, q1)
             \* p0q1.iter().enumerate().for_each(|(i, c)| p1q0[i] += c)
             summed == [i \in 1..Len(p1q0) |->
                          IF i <= Len(p0q1) THEN ZZ_add_ffn(p1q0[i], p0q1[i])
                          ELSE p1q0[i]]
         IN  combine(p0q0, shift_ring_vec(summed, k), shift_ring_vec(p1q1, d))

\* polynomial_mul_ffn with the operands of the (1, _) arm exchanged:
\* `lhs * &rhs.coefficients()[0]`
polynomial_mul_ffn_arm_swapped(lhs, rhs) ==
    IF Len(lhs) = 0 THEN new
    ELSE IF Len(rhs) = 0 THEN new
    ELSE IF Len(lhs) = 1 THEN scalar_mul_ffn(lhs, rhs[1])
    ELSE IF Len(rhs) = 1 THEN scalar_mul_ffn(lhs, rhs[1])
    ELSE IF Len(lhs) = 2 /\ Len(rhs) = 2
         THEN from_owned_coefficients(linear_product(lhs[1], lhs[2], rhs[1], rhs[2]))
    ELSE LET n == next_power_of_two(Max(Len(lhs), Len(rhs)))
             left_coeff == resize(lhs, n, ZZ_ZERO)
             right_coeff == resize(rhs, n, ZZ_ZERO)
         IN  from_owned_coefficients(poly_mul_internal(left_coeff, right_coeff))

polynomial_mul_ffn(lhs, rhs) ==
    IF Len(lhs) = 0 THEN new
    ELSE IF Len(rhs) = 0 THEN new
    ELSE IF Len(lhs) = 1 THEN scalar_mul_ffn(rhs, lhs[1])
    ELSE IF Len(rhs) = 1 THEN scalar_mul_ffn(lhs, rhs[1])
    ELSE IF Len(lhs) = 2 /\ Len(rhs) = 2
         THEN from_owned_coefficients(linear_product(lhs[1], lhs[2], rhs[1], rhs[2]))
    ELSE LET n == next_power_of_two(Max(Len(lhs), Len(rhs)))
             left_coeff == resize(lhs, n, ZZ_ZERO)
             right_coeff == resize(rhs, n, ZZ_ZERO)
         IN  from_owned_coefficients(poly_mul_internal(left_coeff, right_coeff))

\* the ring multiplications (`*` on R) one call of poly_mul_internal makes:
\* one for a single coefficient, four for two, and those of the four
\* recursive calls p0q0, p1q0, p0q1, p1q1 otherwise
RECURSIVE poly_mul_internal_muls(_, _)
poly_mul_internal_muls(lhs, rhs) ==
    IF Len(lhs) = 0 THEN 0
    ELSE IF Len(lhs) = 1 THEN 1
    ELSE IF Len(lhs) = 2 THEN 4
    ELSE LET d == Len(lhs)
             k == d \div 2
             p0 == SubSeq(lhs, 1, k)
             p1 == SubSeq(lhs, k + 1, Len(lhs))
             q0 == SubSeq(rhs, 1, k)
             q1 == SubSeq(rhs, k + 1, Len(rhs))
         IN  poly_mul_internal_muls(p0, q0) + poly_mul_internal_muls(p1, q0)
             + poly_mul_internal_muls(p0, q1) + poly_mul_internal_muls(p1, q1)

\* the ring multiplications one call of polynomial_mul_ffn makes
polynomial_mul_muls(lhs, rhs) ==
    IF Len(lhs) = 0 \/ Len(rhs) = 0 THEN 0
    ELSE IF Len(lhs) = 1
         THEN (IF ZZ_eq_ffn(lhs[1], ZZ_ZERO) THEN 0 ELSE Len(rhs))
    ELSE IF Len(rhs) = 1
         THEN (IF ZZ_eq_ffn(rhs[1], ZZ_ZERO) THEN 0 ELSE Len(lhs))
    ELSE IF Len(lhs) = 2 /\ Len(rhs) = 2 THEN 4
    ELSE LET n == next_power_of_two(Max(Len(lhs), Len(rhs)))
         IN  poly_mul_internal_muls(resize(lhs, n, ZZ_ZERO), resize(rhs, n, ZZ_ZERO))

\* the value of lhs after polynomial_mul_assign_ffn(&mut lhs, &rhs)
polynomial_mul_assign_ffn(lhs, rhs) == polynomial_mul_ffn(lhs, rhs)

(***************************************************************************)
(* Polynomial remainder (pseudo-division).                                 *)
(***************************************************************************)
\* `while a.last().is_some_and(|c| *c == R::ZERO) { a.pop(); }`
RECURSIVE pop_trailing_zeros(_)
pop_trailing_zeros(a) ==
    IF a # <<>> /\ ZZ_eq_ffn(a[Len(a)], ZZ_ZERO)
    THEN pop_trailing_zeros(SubSeq(a, 1, Len(a) - 1))
    ELSE a

\* rem_step scaling by lc_b only the coefficients from position shift on
rem_step_scale_high_only(a, b) ==
    LET deg_b == Len(b) - 1
        lc_b == b[deg_b + 1]
        deg_a == Len(a) - 1
        coeff_a == a[deg_a + 1]
        shift == deg_a - deg_b
        subbed == [j \in 1..Len(a) |->
                     IF j - shift >= 1 /\ j - shift <= deg_b + 1
                     THEN ZZ_sub_ffn(ZZ_mul_ffn(a[j], lc_b), ZZ_mul_ffn(b[j - shift], coeff_a))
                     ELSE a[j]]
    IN  pop_trailing_zeros(subbed)

\* one pass of the body of `while a.len() >= b.len()`: scale a by lc_b,
\* subtract b * factor at the shift, pop the trailing zeros
rem_step(a, b) ==
    LET deg_b == Len(b) - 1
        lc_b == b[deg_b + 1]
        deg_a == Len(a) - 1
        coeff_a == a[deg_a + 1]
        scaled == [i \in 1..Len(a) |-> ZZ_mul_ffn(a[i], lc_b)]
        factor == coeff_a
        shift == deg_a - deg_b
        subbed == [j \in 1..Len(a) |->
                     IF j - shift >= 1 /\ j - shift <= deg_b + 1
                     THEN ZZ_sub_ffn(scaled[j], ZZ_mul_ffn(b[j - shift], factor))
                     ELSE scaled[j]]
    IN  pop_trailing_zeros(subbed)

\* polynomial_remainder_internal looping `while a.len() > b.len()`
RECURSIVE polynomial_remainder_internal_gt(_, _)
polynomial_remainder_internal_gt(a, b) ==
    IF Len(a) > Len(b) THEN polynomial_remainder_internal_gt(rem_step(a, b), b)
    ELSE a

\* polynomial_remainder_internal: the value of a when the loop ends (b is
\* not empty)
RECURSIVE polynomial_remainder_internal(_, _)
polynomial_remainder_internal(a, b) ==
    IF Len(a) >= Len(b) THEN polynomial_remainder_internal(rem_step(a, b), b)
    ELSE a

\* the number of passes of the loop
RECURSIVE remainder_iterations(_, _)
remainder_iterations(a, b) ==
    IF Len(a) >= Len(b) THEN 1 + remainder_iterations(rem_step(a, b), b)
    ELSE 0

ref_polynomial_remainder_ffn(lhs, rhs) ==
    from_owned_coefficients(polynomial_remainder_internal(lhs, rhs))

owned_polynomial_remainder_ffn(lhs, rhs) ==
    from_owned_coefficients(polynomial_remainder_internal(lhs, rhs))

(***************************************************************************)
(* Equality.                                                               *)
(***************************************************************************)
\* eq_ffn without the comparison of the lengths: zip stops at the shorter
eq_ffn_zip_only(lhs, rhs) ==
    \A i \in 1..(IF Len(lhs) <= Len(rhs) THEN Len(lhs) ELSE Len(rhs)) :
        ZZ_eq_ffn(lhs[i], rhs[i])

eq_ffn(lhs, rhs) ==
    /\ Len(lhs) = Len(rhs)
    /\ \A i \in 1..Len(lhs) : ZZ_eq_ffn(lhs[i], rhs[i])

(***************************************************************************)
(* The state of the residue rings' caller: the ring zm made by the last    *)
(* Zmod::new that returned Ok, two ZmodNumber values za and zb, and the    *)
(* call made last.  Binary operations are called as `za op zb`, unary ones *)
(* on za; za and zb are filled alike.                                      *)
(***************************************************************************)
\* no ring made yet
NoRing == [ok |-> FALSE, modulus |-> 0]

ZRegs == {"za", "zb"}

ZStore(r, v) ==
    /\ za' = IF r = "za" THEN v ELSE za
    /\ zb' = IF r = "zb" THEN v ELSE zb

\* a call of op on lhs and rhs, with the integer n and the modulus m given,
\* that returned the ZmodNumber ret or the Result res; form tells the
\* operator's variant: "value" (a op b), "usize" (a op n), "assign" (a op= b)
\* or "assign_usize" (a op= n)
ZCall(op, lhs, rhs, n, m, ret) ==
    [op |-> op, form |-> "value", lhs |-> lhs, rhs |-> rhs, n |-> n, m |-> m,
     ret |-> ret, res |-> NoRing, panic |-> FALSE]

ZIdle == ZCall("idle", ZmodNumber_ZERO, ZmodNumber_ZERO, 0, None, ZmodNumber_ZERO)

\* no ring yet, the two values are the constant ZmodNumber::ZERO
ZInit ==
    /\ zm = NoRing
    /\ za = ZmodNumber_ZERO
    /\ zb = ZmodNumber_ZERO
    /\ zcall = ZIdle

(***************************************************************************)
(* The state: two polynomial values p and q held by the caller, and the    *)
(* call made last with its operands and what it returned.  Binary          *)
(* operations are called as `p op q`, unary ones on p; p and q are filled  *)
(* alike, so every ordered pair of values is met.                          *)
(***************************************************************************)
Regs == {"p", "q"}

Reg(r) == IF r = "p" THEN p ELSE q

Store(r, v) ==
    /\ p' = IF r = "p" THEN v ELSE p
    /\ q' = IF r = "q" THEN v ELSE q

\* a call of op on lhs, rhs and the scalar k that returned the polynomial ret
Call(op, lhs, rhs, k, ret) ==
    [op |-> op, lhs |-> lhs, rhs |-> rhs, k |-> k, ret |-> ret,
     val |-> 0, flag |-> FALSE, panic |-> FALSE]

Idle == Call("idle", <<>>, <<>>, 0, <<>>)

\* the calls that return a polynomial by value
Returning ==
    {"add", "sub", "neg", "neg_ref", "scalar_mul", "scalar_mul_usize", "mul", "rem",
     "shifted_by"}

\* the caller's two values start as Polynomial::new(); no call is made yet
Init ==
    /\ p = new
    /\ q = new
    /\ call = Idle
    /\ ZInit

New ==
    /\ call = Idle
    /\ \E r \in Regs :
           /\ Store(r, new)
           /\ call' = Call("new", <<>>, <<>>, 0, new)
    /\ UNCHANGED zvars

\* a constructor is given up to n coefficients; its value is bound to one of
\* the caller's values that is still Polynomial::new() (New resets either at
\* any time, so the values met are the same)
FromOwnedCoefficients(n) ==
    /\ call = Idle
    /\ \E r \in Regs :
           /\ Reg(r) = new
           /\ \E s \in RawSeqs(n) :
                  /\ Store(r, from_owned_coefficients(s))
                  /\ call' = Call("from_owned_coefficients", s, <<>>, 0,
                                  from_owned_coefficients(s))
    /\ UNCHANGED zvars

FromCoefficients(n) ==
    /\ call = Idle
    /\ \E r \in Regs :
           /\ Reg(r) = new
           /\ \E s \in RawSeqs(n) :
                  /\ Store(r, from_coefficients(s))
                  /\ call' = Call("from_coefficients", s, <<>>, 0, from_coefficients(s))
    /\ UNCHANGED zvars

Add ==
    /\ call = Idle
    /\ call' = Call("add", p, q, 0, add_ffn(p, q))
    /\ UNCHANGED <<p, q>>
    /\ UNCHANGED zvars

Sub ==
    /\ call = Idle
    /\ call' = Call("sub", p, q, 0, sub_ffn(p, q))
    /\ UNCHANGED <<p, q>>
    /\ UNCHANGED zvars

Neg ==
    /\ call = Idle
    /\ call' = Call("neg", p, <<>>, 0, neg(p))
    /\ UNCHANGED <<p, q>>
    /\ UNCHANGED zvars

NegRef ==
    /\ call = Idle
    /\ call' = Call("neg_ref", p, <<>>, 0, neg_ref(p))
    /\ UNCHANGED <<p, q>>
    /\ UNCHANGED zvars

ScalarMul ==
    /\ call = Idle
    /\ \E k \in Coef :
           /\ call' = Call("scalar_mul", p, <<>>, k, scalar_mul_ffn(p, k))
           /\ UNCHANGED <<p, q>>
    /\ UNCHANGED zvars

ScalarMulUsize ==
    /\ call = Idle
    /\ \E k \in 0..MaxCoef :
           /\ call' = Call("scalar_mul_usize", p, <<>>, k, scalar_mul_usize_ffn(p, k))
           /\ UNCHANGED <<p, q>>
    /\ UNCHANGED zvars

\* p * q; val counts the ring multiplications made
PolyMul ==
    /\ call = Idle
    /\ call' = [Call("mul", p, q, 0, polynomial_mul_ffn(p, q))
                     EXCEPT !.val = polynomial_mul_muls(p, q)]
    /\ UNCHANGED <<p, q>>
    /\ UNCHANGED zvars

\* p % q; with no coefficient in q, `b.len() - 1` overflows or `b[deg_b]` is
\* out of range, and the call panics in every build; val counts the passes
\* of the loop
Rem ==
    /\ call = Idle
    /\ call' = IF q = <<>>
               THEN [Call("rem", p, q, 0, <<>>) EXCEPT !.panic = TRUE]
               ELSE [Call("rem", p, q, 0, ref_polynomial_remainder_ffn(p, q))
                         EXCEPT !.val = remainder_iterations(p, q)]
    /\ UNCHANGED <<p, q>>
    /\ UNCHANGED zvars

AddAssign ==
    /\ call = Idle
    /\ InBounds(add_assign_ffn(p, q))
    /\ p' = add_assign_ffn(p, q)
    /\ call' = Call("add_assign", p, q, 0, add_assign_ffn(p, q))
    /\ UNCHANGED q
    /\ UNCHANGED zvars

SubAssign ==
    /\ call = Idle
    /\ InBounds(sub_assign_ffn(p, q))
    /\ p' = sub_assign_ffn(p, q)
    /\ call' = Call("sub_assign", p, q, 0, sub_assign_ffn(p, q))
    /\ UNCHANGED q
    /\ UNCHANGED zvars

ScalarMulAssign ==
    /\ call = Idle
    /\ \E k \in Coef :
           /\ InBounds(scalar_mul_assign_ffn(p, k))
           /\ p' = scalar_mul_assign_ffn(p, k)
           /\ call' = Call("scalar_mul_assign", p, <<>>, k, scalar_mul_assign_ffn(p, k))
           /\ UNCHANGED q
    /\ UNCHANGED zvars

PolyMulAssign ==
    /\ call = Idle
    /\ InBounds(polynomial_mul_assign_ffn(p, q))
    /\ p' = polynomial_mul_assign_ffn(p, q)
    /\ call' = Call("mul_assign", p, q, 0, polynomial_mul_assign_ffn(p, q))
    /\ UNCHANGED q
    /\ UNCHANGED zvars

\* the caller binds the returned polynomial to one of its two values
Keep ==
    /\ call.op \in Returning
    /\ ~call.panic
    /\ InBounds(call.ret)
    /\ \E r \in Regs : Store(r, call.ret)
    /\ call' = Idle
    /\ UNCHANGED zvars

\* the caller drops what the call returned
Drop ==
    /\ call # Idle
    /\ call' = Idle
    /\ UNCHANGED <<p, q>>
    /\ UNCHANGED zvars

Degree ==
    /\ call = Idle
    /\ \E d \in degree(p) :
           /\ call' = [Call("degree", p, <<>>, 0, <<>>) EXCEPT !.val = d.val, !.panic = d.panic]
           /\ UNCHANGED <<p, q>>
    /\ UNCHANGED zvars

IsLinear ==
    /\ call = Idle
    /\ \E l \in is_linear(p) :
           /\ call' = [Call("is_linear", p, <<>>, 0, <<>>) EXCEPT !.flag = l.flag, !.panic = l.panic]
           /\ UNCHANGED <<p, q>>
    /\ UNCHANGED zvars

IsZero ==
    /\ call = Idle
    /\ call' = [Call("is_zero", p, <<>>, 0, <<>>) EXCEPT !.flag = is_zero(p)]
    /\ UNCHANGED <<p, q>>
    /\ UNCHANGED zvars

Eq ==
    /\ call = Idle
    /\ call' = [Call("eq", p, q, 0, <<>>) EXCEPT !.flag = eq_ffn(p, q)]
    /\ UNCHANGED <<p, q>>
    /\ UNCHANGED zvars

\* p.shift_by(k)
ShiftBy ==
    /\ call = Idle
    /\ \E k \in 0..MaxShift :
           /\ InBounds(shift_by(p, k))
           /\ p' = shift_by(p, k)
           /\ call' = Call("shift_by", p, <<>>, k, shift_by(p, k))
           /\ UNCHANGED q
    /\ UNCHANGED zvars

\* p.shifted_by(k)
ShiftedBy ==
    /\ call = Idle
    /\ \E k \in 0..MaxShift :
           /\ call' = [Call("shifted_by", p, <<>>, k, shifted_by(p, k).ret)
                            EXCEPT !.panic = shifted_by(p, k).panic]
           /\ UNCHANGED <<p, q>>
    /\ UNCHANGED zvars

Next ==
    \/ New
    \/ FromOwnedCoefficients(MaxLen)
    \/ FromCoefficients(MaxLen)
    \/ Add
    \/ Sub
    \/ Neg
    \/ NegRef
    \/ ScalarMul
    \/ ScalarMulUsize
    \/ PolyMul
    \/ Rem
    \/ AddAssign
    \/ SubAssign
    \/ ScalarMulAssign
    \/ PolyMulAssign
    \/ Keep
    \/ Drop
    \/ Degree
    \/ IsLinear
    \/ IsZero
    \/ Eq
    \/ ShiftBy
    \/ ShiftedBy

Spec == Init /\ [][Next]_vars

(***************************************************************************)
(* SpecOps: the operations applied once to every ordered pair of operands  *)
(* up to MaxOpLen coefficients, and to the operands of the repository's    *)
(* tests.  Every coefficient vector is a value the program reaches: a      *)
(* vector ending in zeros is `s' - e` for s' the vector with its last      *)
(* element set to 1 and e = x^(len-1) (sub_ffn keeps the trailing zeros).  *)
(***************************************************************************)
\* the operands of integer_polynomial.rs's multiplication tests
TestOperands ==
    {<<1, 2, 5, 6, 8, 3, 1>>, <<3, 5, 0, 1, 5, 9, 2>>,
     <<1, 2, 3, 5, 6, 7>>, <<7, 8, 9>>,
     <<1, 2, 3>>, <<4, 5, 6>>}

InitOps ==
    /\ p \in RawSeqs(MaxOpLen) \cup TestOperands
    /\ q \in RawSeqs(MaxOpLen) \cup TestOperands
    /\ call = Idle
    /\ ZInit

NextOps ==
    \/ FromOwnedCoefficients(MaxOpLen)
    \/ FromCoefficients(MaxOpLen)
    \/ Add
    \/ ScalarMul
    \/ ScalarMulUsize
    \/ PolyMul
    \/ Rem
    \/ Drop

SpecOps == InitOps /\ [][NextOps]_vars

(***************************************************************************)
(* SpecZmod: the caller of the residue rings.  Zmod::new and               *)
(* ZmodNumber::new are public and take any integer as modulus.             *)
(***************************************************************************)
ModInputs == (0 - 1)..MaxMod

IntInputs == (0 - MaxInner)..MaxInner

UsizeInputs == 0..MaxInner

OptModInputs == {None} \cup {Some(m) : m \in ModInputs}

\* a value the caller keeps: reduced by its modulus, or small
ZInBounds(v) == v.modulus.some \/ v.inner \in IntInputs

ZOps == {"add", "sub", "mul"}

\* the operators the impl_op! and impl_assign_op! lines bind to the functions
ZOp(op, lhs, rhs) ==
    CASE op = "add" -> ZmodNumber_add_ffn(lhs, rhs)
      [] op = "sub" -> ZmodNumber_sub_ffn(lhs, rhs)
      [] op = "mul" -> ZmodNumber_mul_ffn(lhs, rhs)

ZOpUsize(op, lhs, n) ==
    CASE op = "add" -> ZmodNumber_add_usize_ffn(lhs, n)
      [] op = "sub" -> ZmodNumber_sub_usize_ffn(lhs, n)
      [] op = "mul" -> ZmodNumber_mul_usize_ffn(lhs, n)

ZOpAssign(op, lhs, rhs) ==
    CASE op = "add" -> ZmodNumber_add_assign_ffn(lhs, rhs)
      [] op = "sub" -> ZmodNumber_sub_assign_ffn(lhs, rhs)
      [] op = "mul" -> ZmodNumber_mul_assign_ffn(lhs, rhs)

ZOpAssignUsize(op, lhs, n) ==
    CASE op = "add" -> ZmodNumber_add_assign_usize_ffn(lhs, n)
      [] op = "sub" -> ZmodNumber_sub_assign_usize_ffn(lhs, n)
      [] op = "mul" -> ZmodNumber_mul_assign_usize_ffn(lhs, n)

\* Zmod::new(n); the caller has a new ring only when it returned Ok
ZmodNew ==
    /\ zcall = ZIdle
    /\ \E n \in ModInputs :
           /\ zm' = IF Zmod_new(n).ok THEN Zmod_new(n) ELSE zm
           /\ zcall' = [ZCall("zmod_new", ZmodNumber_ZERO, ZmodNumber_ZERO, n, None,
                              ZmodNumber_ZERO) EXCEPT !.res = Zmod_new(n)]
    /\ UNCHANGED <<za, zb>>
    /\ UNCHANGED pvars

\* zm.number(n)
ZmodNumberOf ==
    /\ zcall = ZIdle
    /\ zm.ok
    /\ \E r \in ZRegs, n \in IntInputs :
           /\ ZStore(r, Zmod_number(zm, n))
           /\ zcall' = ZCall("number", ZmodNumber_ZERO, ZmodNumber_ZERO, n,
                             Some(zm.modulus), Zmod_number(zm, n))
    /\ UNCHANGED zm
    /\ UNCHANGED pvars

\* zm.zero()
ZmodZero ==
    /\ zcall = ZIdle
    /\ zm.ok
    /\ \E r \in ZRegs :
           /\ ZStore(r, Zmod_zero(zm))
           /\ zcall' = ZCall("ring_zero", ZmodNumber_ZERO, ZmodNumber_ZERO, 0,
                             Some(zm.modulus), Zmod_zero(zm))
    /\ UNCHANGED zm
    /\ UNCHANGED pvars

\* zm.one()
ZmodOne ==
    /\ zcall = ZIdle
    /\ zm.ok
    /\ \E r \in ZRegs :
           /\ ZStore(r, Zmod_one(zm))
           /\ zcall' = ZCall("ring_one", ZmodNumber_ZERO, ZmodNumber_ZERO, 0,
                             Some(zm.modulus), Zmod_one(zm))
    /\ UNCHANGED zm
    /\ UNCHANGED pvars

\* ZmodNumber::new(n, m)
ZmodNumberNew ==
    /\ zcall = ZIdle
    /\ \E r \in ZRegs, n \in IntInputs, m \in OptModInputs :
           IF ZmodNumber_new_panics(m)
           THEN /\ zcall' = [ZCall("new", ZmodNumber_ZERO, ZmodNumber_ZERO, n, m,
                                   ZmodNumber_ZERO) EXCEPT !.panic = TRUE]
                /\ UNCHANGED <<za, zb>>
           ELSE /\ ZStore(r, ZmodNumber_new(n, m))
                /\ zcall' = ZCall("new", ZmodNumber_ZERO, ZmodNumber_ZERO, n, m,
                                  ZmodNumber_new(n, m))
    /\ UNCHANGED zm
    /\ UNCHANGED pvars

\* ZmodNumber::zero()
ZmodNumberZero ==
    /\ zcall = ZIdle
    /\ \E r \in ZRegs :
           /\ ZStore(r, ZmodNumber_ZERO)
           /\ zcall' = ZCall("zero", ZmodNumber_ZERO, ZmodNumber_ZERO, 0, None,
                             ZmodNumber_ZERO)
    /\ UNCHANGED zm
    /\ UNCHANGED pvars

\* ZmodNumber::one()
ZmodNumberOne ==
    /\ zcall = ZIdle
    /\ \E r \in ZRegs :
           /\ ZStore(r, ZmodNumber_one)
           /\ zcall' = ZCall("one", ZmodNumber_ZERO, ZmodNumber_ZERO, 0, None,
                             ZmodNumber_one)
    /\ UNCHANGED zm
    /\ UNCHANGED pvars

\* -za
ZNeg ==
    /\ zcall = ZIdle
    /\ zcall' = ZCall("neg", za, ZmodNumber_ZERO, 0, None, ZmodNumber_neg(za))
    /\ UNCHANGED <<zm, za, zb>>
    /\ UNCHANGED pvars

\* za + zb, za - zb, za * zb
ZBinary ==
    /\ zcall = ZIdle
    /\ \E op \in ZOps :
           zcall' = ZCall(op, za, zb, 0, None, ZOp(op, za, zb))
    /\ UNCHANGED <<zm, za, zb>>
    /\ UNCHANGED pvars

\* za + n, za - n, za * n for a usize n
ZBinaryUsize ==
    /\ zcall = ZIdle
    /\ \E op \in ZOps, n \in UsizeInputs :
           zcall' = [ZCall(op, za, ZmodNumber_ZERO, n, None, ZOpUsize(op, za, n))
                         EXCEPT !.form = "usize"]
    /\ UNCHANGED <<zm, za, zb>>
    /\ UNCHANGED pvars

\* za += zb, za -= zb, za *= zb
ZAssign ==
    /\ zcall = ZIdle
    /\ \E op \in ZOps :
           /\ ZInBounds(ZOpAssign(op, za, zb))
           /\ za' = ZOpAssign(op, za, zb)
           /\ zcall' = [ZCall(op, za, zb, 0, None, ZOpAssign(op, za, zb))
                            EXCEPT !.form = "assign"]
    /\ UNCHANGED <<zm, zb>>
    /\ UNCHANGED pvars

\* za += n, za -= n, za *= n for a usize n
ZAssignUsize ==
    /\ zcall = ZIdle
    /\ \E op \in ZOps, n \in UsizeInputs :
           /\ ZInBounds(ZOpAssignUsize(op, za, n))
           /\ za' = ZOpAssignUsize(op, za, n)
           /\ zcall' = [ZCall(op, za, ZmodNumber_ZERO, n, None, ZOpAssignUsize(op, za, n))
                            EXCEPT !.form = "assign_usize"]
    /\ UNCHANGED <<zm, zb>>
    /\ UNCHANGED pvars

\* the caller binds the returned value to one of its two values
ZKeep ==
    /\ zcall.op \in ZOps \cup {"neg"}
    /\ zcall.form \in {"value", "usize"}
    /\ ZInBounds(zcall.ret)
    /\ \E r \in ZRegs : ZStore(r, zcall.ret)
    /\ zcall' = ZIdle
    /\ UNCHANGED zm
    /\ UNCHANGED pvars

\* the caller drops what the call returned
ZDrop ==
    /\ zcall # ZIdle
    /\ zcall' = ZIdle
    /\ UNCHANGED <<zm, za, zb>>
    /\ UNCHANGED pvars

InitZmod ==
    /\ p = new
    /\ q = new
    /\ call = Idle
    /\ ZInit

NextZmod ==
    \/ ZmodNew
    \/ ZmodNumberOf
    \/ ZmodZero
    \/ ZmodOne
    \/ ZmodNumberNew
    \/ ZmodNumberZero
    \/ ZmodNumberOne
    \/ ZNeg
    \/ ZBinary
    \/ ZBinaryUsize
    \/ ZAssign
    \/ ZAssignUsize
    \/ ZKeep
    \/ ZDrop

SpecZmod == InitZmod /\ [][NextZmod]_vars

(***************************************************************************)
(* What the claims speak of.                                               *)
(***************************************************************************)
\* no trailing zero coefficient
Canonical(s) == s = <<>> \/ s[Len(s)] # 0

\* coefficient i, a missing one counting as zero
At(s, i) == IF i >= 1 /\ i <= Len(s) THEN s[i] ELSE 0

\* s with its maximal suffix of zeros removed
WithoutZeroSuffix(s) ==
    LET nz == {i \in 1..Len(s) : s[i] # 0}
        n == IF nz = {} THEN 0 ELSE CHOOSE i \in nz : \A j \in nz : j <= i
    IN  SubSeq(s, 1, n)

PointwiseSum(a, b) == [i \in 1..Max(Len(a), Len(b)) |-> At(a, i) + At(b, i)]

\* sum over j in 1..i of a[j] * b[k + 1 - j]
RECURSIVE ConvSum(_, _, _, _)
ConvSum(a, b, k, i) ==
    IF i = 0 THEN 0 ELSE At(a, i) * At(b, k + 1 - i) + ConvSum(a, b, k, i - 1)

\* the schoolbook product: c_k = sum over i + j = k of a_i * b_j
Convolution(a, b) ==
    IF a = <<>> \/ b = <<>> THEN <<>>
    ELSE [k \in 1..(Len(a) + Len(b) - 1) |-> ConvSum(a, b, k, k)]

(***************************************************************************)
(* C1: every polynomial value -- the caller's two values and whatever a    *)
(* call returned or left in its left operand -- has an empty coefficient   *)
(* vector or a last coefficient that is not zero.                          *)
(***************************************************************************)
C1_CanonicalForm == Canonical(p) /\ Canonical(q) /\ Canonical(call.ret)

(***************************************************************************)
(* C2: a constructor given s stores s without its maximal suffix of zeros  *)
(* (the prefix unchanged), so coefficients() never ends in zero.           *)
(***************************************************************************)
C2_ConstructionCanonicalizes ==
    call.op \in {"from_coefficients", "from_owned_coefficients"} =>
        /\ call.ret = WithoutZeroSuffix(call.lhs)
        /\ Canonical(call.ret)
        /\ (p = call.ret \/ q = call.ret)

\* an input whose low zero is kept and whose trailing zero is removed
C2_Witness ==
    /\ call.op = "from_owned_coefficients"
    /\ Len(call.lhs) = 3
    /\ call.lhs[1] = 0 /\ call.lhs[2] # 0 /\ call.lhs[3] = 0
    /\ call.ret = <<0, call.lhs[2]>>

(***************************************************************************)
(* C3: for canonical P and Q, P * Q is the schoolbook convolution of the   *)
(* coefficients with trailing zeros stripped.                              *)
(***************************************************************************)
C3_MulIsConvolution ==
    (call.op = "mul" /\ Canonical(call.lhs) /\ Canonical(call.rhs)) =>
        call.ret = WithoutZeroSuffix(Convolution(call.lhs, call.rhs))

\* operands of different lengths, both of three coefficients or more
C3_Witness ==
    /\ call.op = "mul"
    /\ Canonical(call.lhs) /\ Canonical(call.rhs)
    /\ Len(call.lhs) >= 3 /\ Len(call.rhs) >= 3 /\ Len(call.lhs) # Len(call.rhs)
    /\ Len(call.ret) = Len(call.lhs) + Len(call.rhs) - 1

(***************************************************************************)
(* C4: for any A and a canonical B that is not zero, A % B returns, and    *)
(* has fewer coefficients than B; it is zero when B is a constant.         *)
(***************************************************************************)
C4_RemainderBound ==
    (call.op = "rem" /\ call.rhs # <<>> /\ Canonical(call.rhs)) =>
        /\ ~call.panic
        /\ Len(call.ret) < Len(call.rhs)
        /\ (Len(call.rhs) = 1 => call.ret = <<>>)

\* a dividend two passes long that leaves a remainder
C4_Witness ==
    /\ call.op = "rem"
    /\ Canonical(call.rhs)
    /\ Len(call.lhs) = 3 /\ Len(call.rhs) = 2
    /\ call.lhs[3] # 0
    /\ call.ret # <<>>

(***************************************************************************)
(* C5: P - P compares equal to the zero polynomial, for every P.           *)
(***************************************************************************)
C5_SelfSubtractionIsZero ==
    (call.op = "sub" /\ call.lhs = call.rhs) => eq_ffn(call.ret, new)

(***************************************************************************)
(* C6: for canonical P and Q, coefficient i of P - Q is p_i - q_i (a       *)
(* missing coefficient counting as zero); and (zero - Q) + Q is zero.      *)
(***************************************************************************)
C6_SubtractionPointwise ==
    (call.op = "sub" /\ Canonical(call.lhs) /\ Canonical(call.rhs)) =>
        /\ \A i \in 1..Max(Len(call.lhs), Len(call.rhs)) :
               At(call.ret, i) = At(call.lhs, i) - At(call.rhs, i)
        /\ (call.lhs = <<>> => eq_ffn(add_ffn(call.ret, call.rhs), new))

(***************************************************************************)
(* C7: -P has the length of P, each of its coefficients added to the one   *)
(* of P gives the ring's zero, and P + (-P) is the zero polynomial.        *)
(***************************************************************************)
C7_NegationIsInverse ==
    call.op \in {"neg", "neg_ref"} =>
        /\ Len(call.ret) = Len(call.lhs)
        /\ \A i \in 1..Len(call.lhs) :
               ZZ_eq_ffn(ZZ_add_ffn(call.lhs[i], At(call.ret, i)), ZZ_ZERO)
        /\ eq_ffn(add_ffn(call.lhs, call.ret), new)

(***************************************************************************)
(* C8: degree() returns, with the number of coefficients less one, or 0    *)
(* for the zero polynomial; is_linear() returns, and is true exactly when  *)
(* two coefficients are stored.                                            *)
(***************************************************************************)
C8_DegreeTotal ==
    /\ call.op = "degree" =>
           /\ ~call.panic
           /\ call.val = IF call.lhs = <<>> THEN 0 ELSE Len(call.lhs) - 1
    /\ call.op = "is_linear" =>
           /\ ~call.panic
           /\ call.flag = (Len(call.lhs) = 2)

(***************************************************************************)
(* C9: for canonical P and Q, P + Q is the pointwise sum with trailing     *)
(* zeros stripped; with a zero operand it is the other operand.            *)
(***************************************************************************)
C9_AdditionPointwise ==
    (call.op = "add" /\ Canonical(call.lhs) /\ Canonical(call.rhs)) =>
        /\ call.ret = WithoutZeroSuffix(PointwiseSum(call.lhs, call.rhs))
        /\ (call.rhs = <<>> => call.ret = call.lhs)
        /\ (call.lhs = <<>> => call.ret = call.rhs)

\* leading coefficients that cancel
C9_Witness ==
    /\ call.op = "add"
    /\ Canonical(call.lhs) /\ Canonical(call.rhs)
    /\ Len(call.lhs) = 3 /\ Len(call.rhs) = 3
    /\ Len(call.ret) = 1

(***************************************************************************)
(* C10: for canonical P and Q, P * Q == Q * P under polynomial equality.   *)
(***************************************************************************)
C10_MulCommutes ==
    (call.op = "mul" /\ Canonical(call.lhs) /\ Canonical(call.rhs)) =>
        eq_ffn(call.ret, polynomial_mul_ffn(call.rhs, call.lhs))

\* a constant times a polynomial of three coefficients
C10_Witness ==
    /\ call.op = "mul"
    /\ Canonical(call.lhs) /\ Canonical(call.rhs)
    /\ Len(call.lhs) = 1 /\ Len(call.rhs) = 3
    /\ call.ret # call.rhs
    /\ Len(call.ret) = 3

(***************************************************************************)
(* C11: P + Q == Q + P under polynomial equality, for every P and Q the    *)
(* caller can hold (of equal or different lengths, either possibly zero).  *)
(***************************************************************************)
C11_AddCommutes ==
    call.op = "add" => eq_ffn(call.ret, add_ffn(call.rhs, call.lhs))

(***************************************************************************)
(* C12: P times a ring value equal to the ring's zero, P times the machine *)
(* integer 0, and a product with a zero polynomial on either side, all     *)
(* have the empty coefficient vector, whatever the length of P.            *)
(***************************************************************************)
AllZero(s) == \A i \in 1..Len(s) : s[i] = 0

C12_ZeroAbsorbs ==
    /\ (call.op = "scalar_mul" /\ call.k = 0) => call.ret = <<>>
    /\ (call.op = "scalar_mul_usize" /\ call.k = 0) => call.ret = <<>>
    /\ (call.op = "mul" /\ (AllZero(call.lhs) \/ AllZero(call.rhs))) => call.ret = <<>>

\* a polynomial of three coefficients or more, none of them zero, times the
\* ring's zero
C12_Witness ==
    /\ call.op = "scalar_mul"
    /\ call.k = 0
    /\ Len(call.lhs) >= 3
    /\ \A i \in 1..Len(call.lhs) : call.lhs[i] # 0
    /\ call.ret = <<>>

(***************************************************************************)
(* C13: P == Q exactly when the coefficient vectors have the same length   *)
(* and the same coefficient at every position; vectors of different        *)
(* lengths are unequal even when they agree on the common prefix; and ==   *)
(* is reflexive, symmetric and transitive on the values the caller holds.  *)
(***************************************************************************)
C13_Equality ==
    call.op = "eq" =>
        /\ call.flag = (call.lhs = call.rhs)
        /\ (Len(call.lhs) # Len(call.rhs) => ~call.flag)
        /\ eq_ffn(call.lhs, call.lhs) /\ eq_ffn(call.rhs, call.rhs)
        /\ call.flag = eq_ffn(call.rhs, call.lhs)
        /\ \A r \in RawSeqs(MaxLen) :
               (call.flag /\ eq_ffn(call.rhs, r)) => eq_ffn(call.lhs, r)

\* a polynomial compared with a longer one that starts with its coefficients
C13_Witness ==
    /\ call.op = "eq"
    /\ call.lhs # <<>>
    /\ Len(call.lhs) < Len(call.rhs)
    /\ \A i \in 1..Len(call.lhs) : call.lhs[i] = call.rhs[i]
    /\ ~call.flag

(***************************************************************************)
(* C16: for canonical P and Q and a ring value s, what P += Q, P -= Q,     *)
(* P *= s and P *= Q leave in P compares equal (==) to what P + Q, P - Q,  *)
(* P * s and P * Q return, leading coefficients that cancel included.      *)
(***************************************************************************)
C16_AssignAgrees ==
    (Canonical(call.lhs) /\ Canonical(call.rhs)) =>
        /\ call.op = "add_assign" =>
               /\ p = call.ret
               /\ eq_ffn(p, add_ffn(call.lhs, call.rhs))
        /\ call.op = "sub_assign" =>
               /\ p = call.ret
               /\ eq_ffn(p, sub_ffn(call.lhs, call.rhs))
        /\ call.op = "scalar_mul_assign" =>
               /\ p = call.ret
               /\ eq_ffn(p, scalar_mul_ffn(call.lhs, call.k))
        /\ call.op = "mul_assign" =>
               /\ p = call.ret
               /\ eq_ffn(p, polynomial_mul_ffn(call.lhs, call.rhs))

(***************************************************************************)
(* C14: Zmod::new(m) returns an error and makes no ring for every m <= 0,  *)
(* and for every m > 0 returns a ring whose modulus() is m.                *)
(***************************************************************************)
C14_ModulusValidation ==
    zcall.op = "zmod_new" =>
        /\ zcall.n <= 0 => ~zcall.res.ok
        /\ zcall.n > 0 =>
               /\ zcall.res.ok
               /\ Zmod_modulus(zcall.res) = zcall.n
               /\ zm = zcall.res
        /\ zm.ok => Zmod_modulus(zm) > 0

\* a modulus of zero refused while the caller's earlier ring stays as it was
C14_Witness ==
    /\ zcall.op = "zmod_new"
    /\ zcall.n = 0
    /\ ~zcall.res.ok
    /\ zm.ok /\ Zmod_modulus(zm) = MaxMod

(***************************************************************************)
(* C15: every ZmodNumber made by Zmod::number/zero/one, ZmodNumber::new,   *)
(* negation and the operators (against a ZmodNumber or a usize, mutating   *)
(* or not) that carries a modulus m holds an integer v with 0 <= v < m.    *)
(***************************************************************************)
InResidueRange(v) == v.modulus.some => (0 <= v.inner /\ v.inner < v.modulus.val)

C15_ResidueRange ==
    InResidueRange(za) /\ InResidueRange(zb) /\ InResidueRange(zcall.ret)

(***************************************************************************)
(* C17: for ZmodNumber values a and b of which at least one carries a      *)
(* modulus m (a without modulus and b with m included), after a += b,      *)
(* a -= b or a *= b the left operand holds the integer, reduced into       *)
(* [0, m), and the modulus of the value a + b, a - b or a * b returns.     *)
(***************************************************************************)
C17_AssignReducesAlike ==
    (/\ zcall.op \in ZOps
     /\ zcall.form = "assign"
     /\ (zcall.lhs.modulus.some \/ zcall.rhs.modulus.some)) =>
        /\ za = zcall.ret
        /\ za.inner = ZOp(zcall.op, zcall.lhs, zcall.rhs).inner
        /\ za.modulus = ZOp(zcall.op, zcall.lhs, zcall.rhs).modulus
        /\ za.modulus.some
        /\ 0 <= za.inner /\ za.inner < za.modulus.val

(***************************************************************************)
(* C18: for every dividend A and every divisor B that is not zero, A % B   *)
(* returns; every pass of the loop leaves the working dividend shorter by  *)
(* one coefficient or more; the passes number at most deg(A) - deg(B) + 1, *)
(* and none when A has fewer coefficients than B, when A % B == A.         *)
(***************************************************************************)
RECURSIVE EachPassShortens(_, _)
EachPassShortens(a, b) ==
    IF Len(a) >= Len(b)
    THEN Len(rem_step(a, b)) < Len(a) /\ EachPassShortens(rem_step(a, b), b)
    ELSE TRUE

C18_RemainderTerminates ==
    (call.op = "rem" /\ ~is_zero(call.rhs)) =>
        /\ ~call.panic
        /\ EachPassShortens(call.lhs, call.rhs)
        /\ call.val <= (IF Len(call.lhs) >= Len(call.rhs)
                        THEN Len(call.lhs) - Len(call.rhs) + 1 ELSE 0)
        /\ Len(call.lhs) < Len(call.rhs) =>
               /\ call.val = 0
               /\ eq_ffn(call.ret, call.lhs)

(***************************************************************************)
(* C19: over the integer ring, for every A and every B with a coefficient, *)
(* when the loop makes k passes the remainder R = A % B satisfies          *)
(* lc(B)^k * A = Q * B + R for some Q; each pass replaces a by             *)
(* lc(B) * a - lc(a) * x^(deg(a) - deg(B)) * B, and below position         *)
(* deg(a) - deg(B) it does nothing but scale the coefficients by lc(B).    *)
(***************************************************************************)
RECURSIVE Pow(_, _)
Pow(b, k) == IF k = 0 THEN 1 ELSE b * Pow(b, k - 1)

\* the last coefficient
Lc(s) == s[Len(s)]

\* what each pass is said to do to a
RECURSIVE EachPassEliminates(_, _)
EachPassEliminates(a, b) ==
    IF Len(a) >= Len(b)
    THEN LET shift == Len(a) - Len(b)
             next == rem_step(a, b)
         IN  /\ \A i \in 1..Len(a) :
                    At(next, i) = Lc(b) * a[i] - Lc(a) * At(b, i - shift)
             /\ \A i \in 1..shift : At(next, i) = Lc(b) * a[i]
             /\ EachPassEliminates(next, b)
    ELSE TRUE

\* the quotient gathered along the passes: acc becomes
\* lc(B) * acc + lc(a) * x^(deg(a) - deg(B)); acc has n coefficients
RECURSIVE PseudoQuotient(_, _, _)
PseudoQuotient(a, b, acc) ==
    IF Len(a) >= Len(b)
    THEN PseudoQuotient(rem_step(a, b), b,
                        [i \in 1..Len(acc) |->
                            Lc(b) * acc[i]
                            + (IF i = Len(a) - Len(b) + 1 THEN Lc(a) ELSE 0)])
    ELSE acc

C19_PseudoRemainderCongruence ==
    (call.op = "rem" /\ call.rhs # <<>>) =>
        LET A == call.lhs
            B == call.rhs
            Q == PseudoQuotient(A, B, [i \in 1..Len(A) |-> 0])
            QB == Convolution(Q, B)
        IN  /\ EachPassEliminates(A, B)
            /\ \A i \in 1..(Len(A) + Len(B)) :
                   Pow(Lc(B), call.val) * At(A, i) = At(QB, i) + At(call.ret, i)

\* two passes with a leading coefficient of the divisor other than 1, and a
\* remainder left
C19_Witness ==
    /\ call.op = "rem"
    /\ Len(call.lhs) = 3 /\ Len(call.rhs) = 2
    /\ Lc(call.rhs) \notin {0, 1}
    /\ call.val = 2
    /\ call.ret # <<>>

(***************************************************************************)
(* C20: with operands padded to n coefficients (a power of two, n >= 4)    *)
(* the recursive multiplication makes three recursive products of half     *)
(* the size at each level, and so fewer than n^2 ring multiplications.     *)
(***************************************************************************)
C20_KaratsubaCount ==
    (/\ call.op = "mul"
     /\ Len(call.lhs) >= 2 /\ Len(call.rhs) >= 2
     /\ Max(Len(call.lhs), Len(call.rhs)) >= 3) =>
        LET n == next_power_of_two(Max(Len(call.lhs), Len(call.rhs)))
            half == [i \in 1..(n \div 2) |-> 0]
        IN  /\ n >= 4
            /\ call.val = 3 * poly_mul_internal_muls(half, half)
            /\ call.val < n * n

(***************************************************************************)
(* C21: for every P and every k >= 0, shifted_by(k) returns, and returns a *)
(* polynomial equal to what P is after shift_by(k): k zero coefficients    *)
(* followed by the coefficients of P; the zero polynomial and k = 0 are    *)
(* left as they are by both, and shifted_by does not change P.             *)
(***************************************************************************)
TimesXPow(s, k) ==
    IF k = 0 \/ s = <<>> \/ s = <<0>> THEN s ELSE [i \in 1..k |-> 0] \o s

C21_ShiftsAgree ==
    /\ call.op = "shift_by" => p = TimesXPow(call.lhs, call.k)
    /\ call.op = "shifted_by" =>
           /\ ~call.panic
           /\ call.ret = TimesXPow(call.lhs, call.k)
           /\ eq_ffn(call.ret, shift_by(call.lhs, call.k))
           /\ p = call.lhs

====
